---- MODULE Spec2Model ----
(***************************************************************************)
(* Round lifecycle and prefetch queue of the LexiLens / INSIGHT game       *)
(* (App component, feature-complete variant with score and history).       *)
(*                                                                         *)
(* React is modelled by what it does to this component:                    *)
(*  - gameState is the component state; setGameState(prev => ...) applies  *)
(*    its updater to the latest state, in the order the calls were made;   *)
(*  - rendered is what the closures created by the last render captured   *)
(*    of gameState (the handlers read it, not the latest state);           *)
(*  - an update made in a click handler is rendered, with its effects,     *)
(*    before any other event is handled (synchronous flush of discrete     *)
(*    events); an update made after an await or in a timer callback is     *)
(*    rendered by a later task, so other events may be handled first:      *)
(*    that later task is the action Render.                                *)
(* Time is kept relative: cooldownLeft is prefetchCooldown.current minus   *)
(* Date.now() (0 when the cooldown is over), prefetchTimer.left the time   *)
(* before the debounce timer may fire; Tick lets DEBOUNCE_MS elapse.       *)
(* HistoryItem.timestamp is only used as a React key and is left out.      *)
(* Two variables observe the run: alertShown (the last step called         *)
(* alert()) and sinceFailure (the time elapsed since the last background   *)
(* request failed, counted up to COOLDOWN_MS, where it starts).            *)
(* A third, movedOn, tells whether status or puzzle have changed since the *)
(* last background request was issued.                                     *)
(* The functions of the generator service that the claims are about        *)
(* (the letter pool, withRetry, expandPool) and the letter click of the    *)
(* older App variant run in specifications of their own, with the App at   *)
(* rest; call holds the state of the function that is running.             *)
(*                                                                         *)
(* The puzzle generator is the collaborator behind generateGameRound():    *)
(* it upper-cases the word of the generative model and sets word_length    *)
(* to its length.  The variants of the service differ in whether a short   *)
(* word is replaced; the App does its own length check on prefetched       *)
(* puzzles, so the generator here may answer with a word of any length,    *)
(* as src/services/geminiService.ts does.                                  *)
(*                                                                         *)
(* Three specifications share the actions and differ in what the player    *)
(* and the generator do: Spec (lifecycle and queue), SpecGuess (guess      *)
(* evaluation, every key) and SpecHist (enough rounds to fill history).    *)
(***************************************************************************)
EXTENDS Integers, Sequences, FiniteSets, Bags, TLC

VARIABLES gameState, rendered, prefetchTimer, isFetchingNext, hasExpandedPool,
          cooldownLeft, isRetrying, isPrefetching, prefetchInFlight,
          loadInFlight, expandInFlight, lastOp, alertShown, sinceFailure,
          movedOn, call

vars == <<gameState, rendered, prefetchTimer, isFetchingNext, hasExpandedPool,
          cooldownLeft, isRetrying, isPrefetching, prefetchInFlight,
          loadInFlight, expandInFlight, lastOp, alertShown, sinceFailure,
          movedOn, call>>

\* the state of the App: everything but the function run on its own
appVars == <<gameState, rendered, prefetchTimer, isFetchingNext,
             hasExpandedPool, cooldownLeft, isRetrying, isPrefetching,
             prefetchInFlight, loadInFlight, expandInFlight, lastOp,
             alertShown, sinceFailure, movedOn>>

\* ---------------------------------------------------------------- constants
MAX_ATTEMPTS == 4
MAX_PREFETCH == 2
MAX_HISTORY == 12
MIN_WORD_LENGTH == 3
DEBOUNCE_MS == 1000
COOLDOWN_MS == 5000
EXPANSION_TRIGGER == 2

\* ------------------------------------------------------------------- bounds
\* rounds that may be completed in a session of Spec
MaxRounds == 2
\* rounds that may be completed in a session of SpecGuess
GuessRounds == 2
\* rounds that may be completed in a session of SpecHist
HistRounds == 14
\* rounds that may be completed in a session of SpecLive
LiveRounds == 2

\* ---------------------------------------------------------------- data model
IDLE == "IDLE"
LOADING == "LOADING"
PLAYING == "PLAYING"
WON == "WON"
LOST == "LOST"
GameStatus == {IDLE, LOADING, PLAYING, WON, LOST}

\* GameState.puzzle when no puzzle is held (null)
NULL == [null |-> TRUE]

\* the letters of the on-screen keys (letter_pool draws from the upper-case alphabet)
Letters == {"A", "B", "V", "W", "X", "Y", "Z"}

\* the words the generative model may answer with (concept.target_word)
RawWords == {<<"a", "b", "a">>, <<"B", "A", "B">>, <<"a", "b">>}

\* String.prototype.toUpperCase on one character
UpperChar(c) ==
  CASE c = "a" -> "A"
    [] c = "b" -> "B"
    [] OTHER -> c

\* String.prototype.toUpperCase
toUpperCase(w) == [i \in DOMAIN w |-> UpperChar(w[i])]

\* the PuzzleData generateGameRound builds from the model's word
generateGameRound(raw) ==
  LET targetWord == toUpperCase(raw)
  IN [target_word_hidden |-> targetWord, word_length |-> Len(targetWord)]

\* every PuzzleData the generator may resolve with
GeneratedPuzzles == {generateGameRound(raw) : raw \in RawWords}

\* the keys pressed in Spec: every letter of the words and one wrong letter
Keys == {"A", "B", "X"}

\* the puzzles the generator resolves with in SpecLive: those of Spec and the
\* one made from an empty target_word
LivePuzzles == GeneratedPuzzles \cup {generateGameRound(<<>>)}

\* the puzzles the generator resolves with in SpecGuess
GuessPuzzles == {generateGameRound(<<"a", "b", "a">>)}

\* the puzzle the generator resolves with in SpecHist: BAB until a round is
\* won, ABA from then on
HistPuzzle ==
  IF gameState.score.won = 0
  THEN generateGameRound(<<"B", "A", "B">>)
  ELSE generateGameRound(<<"a", "b", "a">>)

\* the keys pressed in SpecHist
HistKeys == {"A", "B"}

\* new Array(n).fill('')
BlankGuess(n) == [i \in 1..n |-> ""]

\* Array.prototype.join('') === targetWord, on arrays of one-character strings
JoinEquals(guess, word) ==
  /\ Len(guess) = Len(word)
  /\ \A i \in 1..Len(word) : guess[i] = word[i]

\* Array.prototype.slice(0, n)
SliceTo(s, n) == IF Len(s) <= n THEN s ELSE SubSeq(s, 1, n)

\* what the closures of a render capture of gameState
Proj(gs) ==
  [status |-> gs.status,
   puzzle |-> gs.puzzle,
   nextPuzzlesLength |-> Len(gs.nextPuzzles),
   attempts |-> gs.attempts,
   maxAttempts |-> gs.maxAttempts,
   guessedLetters |-> gs.guessedLetters]

NoTimer == [set |-> FALSE, len |-> 0, left |-> 0]

InitialGameState ==
  [status |-> IDLE,
   puzzle |-> NULL,
   nextPuzzles |-> <<>>,
   userGuess |-> <<>>,
   attempts |-> 0,
   maxAttempts |-> MAX_ATTEMPTS,
   guessedLetters |-> {},
   score |-> [won |-> 0, lost |-> 0],
   history |-> <<>>]

\* the App with game state gs rendered and nothing pending
AppAt(gs) ==
  /\ gameState = gs
  /\ rendered = Proj(gs)
  /\ prefetchTimer = NoTimer
  /\ isFetchingNext = FALSE
  /\ hasExpandedPool = FALSE
  /\ cooldownLeft = 0
  /\ isRetrying = FALSE
  /\ isPrefetching = FALSE
  /\ prefetchInFlight = 0
  /\ loadInFlight = 0
  /\ expandInFlight = 0
  /\ lastOp = "mount"
  /\ alertShown = FALSE
  /\ sinceFailure = COOLDOWN_MS
  /\ movedOn = FALSE

AppInit == AppAt(InitialGameState)

\* no function of the generator service is being run on its own
NoCall == [fn |-> "none"]

Init == AppInit /\ call = NoCall

\* ------------------------------------------------------------------ effects
\* the prefetch scheduling effect: the timer left by a render that follows `old`
PrefetchEffect(old, new, timer) ==
  IF old.nextPuzzlesLength = new.nextPuzzlesLength /\ old.status = new.status
  THEN timer
  ELSE IF new.status # IDLE /\ new.nextPuzzlesLength < MAX_PREFETCH
       THEN [set |-> TRUE, len |-> new.nextPuzzlesLength, left |-> DEBOUNCE_MS]
       ELSE NoTimer

\* the content pool expansion monitor: does this render request an expansion
isPoolReadyForExpansion(old, new, expanded) ==
  /\ old.nextPuzzlesLength # new.nextPuzzlesLength
  /\ new.nextPuzzlesLength = EXPANSION_TRIGGER
  /\ ~expanded

\* a render of the state gs, followed by its effects
Commit(gs) ==
  /\ rendered' = Proj(gs)
  /\ prefetchTimer' = PrefetchEffect(rendered, Proj(gs), prefetchTimer)
  /\ hasExpandedPool' =
       (hasExpandedPool \/ isPoolReadyForExpansion(rendered, Proj(gs), hasExpandedPool))
  /\ expandInFlight' =
       IF isPoolReadyForExpansion(rendered, Proj(gs), hasExpandedPool)
       THEN expandInFlight + 1 ELSE expandInFlight

\* the last conjunct of every action: has the round moved on (status or
\* puzzle changed) while the background request issued last was in flight
TrackRequest ==
  movedOn' =
    IF prefetchInFlight' > prefetchInFlight THEN FALSE
    ELSE \/ movedOn
         \/ /\ prefetchInFlight > 0
            /\ <<gameState'.status, gameState'.puzzle>> # <<gameState.status, gameState.puzzle>>

\* a step that calls no alert() and takes no time
Quiet ==
  /\ alertShown' = FALSE
  /\ sinceFailure' = sinceFailure

\* the render React schedules after an update made outside a click handler
Render ==
  /\ Quiet
  /\ rendered # Proj(gameState)
  /\ Commit(gameState)
  /\ lastOp' = "render"
  /\ UNCHANGED <<gameState, isFetchingNext, cooldownLeft, isRetrying,
                 isPrefetching, prefetchInFlight, loadInFlight>>
  /\ UNCHANGED call
  /\ TrackRequest

\* archiveCurrentPuzzle recording every finished round as won
archiveCurrentPuzzle_AlwaysWon(prev) ==
  IF prev.puzzle = NULL \/ (prev.status # WON /\ prev.status # LOST)
  THEN prev.history
  ELSE SliceTo(<<[puzzle |-> prev.puzzle, outcome |-> "WON"]>> \o prev.history,
               MAX_HISTORY)

\* ------------------------------------------------------------------ history
\* archiveCurrentPuzzle without the slice to MAX_HISTORY
archiveCurrentPuzzle_NoSlice(prev) ==
  IF prev.puzzle = NULL \/ (prev.status # WON /\ prev.status # LOST)
  THEN prev.history
  ELSE <<[puzzle |-> prev.puzzle,
          outcome |-> IF prev.status = WON THEN "WON" ELSE "LOST"]>> \o prev.history

\* archiveCurrentPuzzle without the test of the status
archiveCurrentPuzzle_AnyStatus(prev) ==
  IF prev.puzzle = NULL
  THEN prev.history
  ELSE SliceTo(<<[puzzle |-> prev.puzzle,
                  outcome |-> IF prev.status = WON THEN "WON" ELSE "LOST"]>>
               \o prev.history, MAX_HISTORY)

archiveCurrentPuzzle(prev) ==
  IF prev.puzzle = NULL \/ (prev.status # WON /\ prev.status # LOST)
  THEN prev.history
  ELSE LET newHistoryItem ==
             [puzzle |-> prev.puzzle,
              outcome |-> IF prev.status = WON THEN "WON" ELSE "LOST"]
       IN SliceTo(<<newHistoryItem>> \o prev.history, MAX_HISTORY)

\* ---------------------------------------------------------------- startNewGame
\* the updater of the fast path: take the head of the queue
startFromQueue(prev) ==
  IF Len(prev.nextPuzzles) = 0 THEN prev
  ELSE LET next == Head(prev.nextPuzzles)
           remaining == Tail(prev.nextPuzzles)
           updatedHistory == archiveCurrentPuzzle(prev)
       IN [prev EXCEPT !.status = PLAYING,
                       !.puzzle = next,
                       !.nextPuzzles = remaining,
                       !.userGuess = BlankGuess(next.word_length),
                       !.attempts = 0,
                       !.guessedLetters = {},
                       !.history = updatedHistory]

\* the LOADING updater without the archival
startLoading_NoArchive(prev) ==
  [prev EXCEPT !.status = LOADING,
               !.userGuess = <<>>,
               !.attempts = 0,
               !.guessedLetters = {}]

\* the updater that enters LOADING before the foreground request
startLoading(prev) ==
  [prev EXCEPT !.status = LOADING,
               !.userGuess = <<>>,
               !.attempts = 0,
               !.guessedLetters = {},
               !.history = archiveCurrentPuzzle(prev)]

\* installPuzzle that leaves userGuess as LOADING set it
installPuzzle_NoBlank(prev, puzzle) ==
  [prev EXCEPT !.status = PLAYING,
               !.puzzle = puzzle,
               !.attempts = 0,
               !.guessedLetters = {}]

\* the updater run when the foreground request resolves
installPuzzle(prev, puzzle) ==
  [prev EXCEPT !.status = PLAYING,
               !.puzzle = puzzle,
               !.userGuess = BlankGuess(puzzle.word_length),
               !.attempts = 0,
               !.guessedLetters = {}]

\* a start button that is also rendered during a round
StartButtonShown_InPlaying ==
  \/ rendered.status \in {IDLE, PLAYING}
  \/ (rendered.status \in {WON, LOST} /\ rendered.puzzle # NULL)

\* the buttons that call startNewGame are rendered in IDLE, WON and LOST only
StartButtonShown ==
  \/ rendered.status = IDLE
  \/ (rendered.status \in {WON, LOST} /\ rendered.puzzle # NULL)

\* a click on a start button: startNewGame up to its await, then the render
StartNewGame ==
  /\ Quiet
  /\ StartButtonShown
  /\ IF rendered.nextPuzzlesLength > 0
     THEN /\ gameState' = startFromQueue(gameState)
          /\ Commit(startFromQueue(gameState))
          /\ loadInFlight' = loadInFlight
          /\ lastOp' = "start_queue"
     ELSE /\ gameState' = startLoading(gameState)
          /\ Commit(startLoading(gameState))
          /\ loadInFlight' = loadInFlight + 1
          /\ lastOp' = "start_loading"
  /\ UNCHANGED <<isFetchingNext, cooldownLeft, isRetrying, isPrefetching,
                 prefetchInFlight>>
  /\ UNCHANGED call
  /\ TrackRequest

\* the foreground generateGameRound() resolves with puzzle
LoadResolve(puzzle) ==
  /\ Quiet
  /\ loadInFlight > 0
  /\ loadInFlight' = loadInFlight - 1
  /\ gameState' = installPuzzle(gameState, puzzle)
  /\ lastOp' = "load_ok"
  /\ UNCHANGED <<rendered, prefetchTimer, isFetchingNext, hasExpandedPool,
                 cooldownLeft, isRetrying, isPrefetching, prefetchInFlight,
                 expandInFlight>>
  /\ UNCHANGED call
  /\ TrackRequest

\* LoadReject without the alert() call
LoadReject_NoAlert ==
  /\ Quiet
  /\ loadInFlight > 0
  /\ loadInFlight' = loadInFlight - 1
  /\ gameState' = [gameState EXCEPT !.status = IDLE]
  /\ lastOp' = "load_fail"
  /\ UNCHANGED <<rendered, prefetchTimer, isFetchingNext, hasExpandedPool,
                 cooldownLeft, isRetrying, isPrefetching, prefetchInFlight,
                 expandInFlight>>
  /\ UNCHANGED call
  /\ TrackRequest

\* the foreground generateGameRound() rejects: back to IDLE and alert
LoadReject ==
  /\ alertShown' = TRUE
  /\ sinceFailure' = sinceFailure
  /\ loadInFlight > 0
  /\ loadInFlight' = loadInFlight - 1
  /\ gameState' = [gameState EXCEPT !.status = IDLE]
  /\ lastOp' = "load_fail"
  /\ UNCHANGED <<rendered, prefetchTimer, isFetchingNext, hasExpandedPool,
                 cooldownLeft, isRetrying, isPrefetching, prefetchInFlight,
                 expandInFlight>>
  /\ UNCHANGED call
  /\ TrackRequest

\* the display with only the first occurrence of a guessed letter revealed
newUserGuess_FirstOccurrence(targetWord, nextGuessed) ==
  [i \in DOMAIN targetWord |->
     IF targetWord[i] \in nextGuessed /\ \A j \in 1..(i - 1) : targetWord[j] # targetWord[i]
     THEN targetWord[i] ELSE ""]

\* ------------------------------------------------------------ handleLetterClick
\* targetWord.split('').map(char => nextGuessed.has(char) ? char : '')
newUserGuess(targetWord, nextGuessed) ==
  [i \in DOMAIN targetWord |->
     IF targetWord[i] \in nextGuessed THEN targetWord[i] ELSE ""]

\* targetWord.includes(letter)
isCorrect(targetWord, letter) == \E i \in DOMAIN targetWord : targetWord[i] = letter

\* attempts after the click, no click penalised
nextAttempts_NoPenalty(attempts, targetWord, letter) == attempts

\* attempts after the click, every click penalised
nextAttempts_AlwaysPenalty(attempts, targetWord, letter) == attempts + 1

\* attempts after the click
nextAttempts(attempts, targetWord, letter) ==
  IF isCorrect(targetWord, letter) THEN attempts ELSE attempts + 1

\* isWon counting guessed letters against the positions of the word
isWon_ByCount(targetWord, nextGuessed) ==
  Cardinality(nextGuessed) >= Len(targetWord)

isWon(targetWord, nextGuessed) ==
  JoinEquals(newUserGuess(targetWord, nextGuessed), targetWord)

\* isLost that spares a round in which a letter of the word has been found
isLost_NotAfterHit(targetWord, nextGuessed, attempts, maxAttempts) ==
  /\ ~isWon(targetWord, nextGuessed)
  /\ attempts >= maxAttempts
  /\ \A i \in 1..Len(targetWord) : targetWord[i] \notin nextGuessed

\* isLost one attempt early
isLost_OffByOne(targetWord, nextGuessed, attempts, maxAttempts) ==
  ~isWon(targetWord, nextGuessed) /\ attempts + 1 >= maxAttempts

\* isLost with > for >=
isLost_Strict(targetWord, nextGuessed, attempts, maxAttempts) ==
  ~isWon(targetWord, nextGuessed) /\ attempts > maxAttempts

isLost(targetWord, nextGuessed, attempts, maxAttempts) ==
  ~isWon(targetWord, nextGuessed) /\ attempts >= maxAttempts

\* the early returns without the test of status
ClickIgnored_NoStatusCheck(letter) ==
  \/ rendered.puzzle = NULL
  \/ letter \in rendered.guessedLetters
  \/ toUpperCase(rendered.puzzle.target_word_hidden) = <<>>

\* the early returns without the test of guessedLetters
ClickIgnored_NoGuessedCheck(letter) ==
  \/ rendered.puzzle = NULL
  \/ rendered.status # PLAYING
  \/ toUpperCase(rendered.puzzle.target_word_hidden) = <<>>

\* the early returns of handleLetterClick, on the values its closure captured
ClickIgnored(letter) ==
  \/ rendered.puzzle = NULL
  \/ rendered.status # PLAYING
  \/ letter \in rendered.guessedLetters
  \/ toUpperCase(rendered.puzzle.target_word_hidden) = <<>>

\* the updater adding to score.won on every correct click
applyGuess_ScoreOnHit(prev, letter) ==
  LET targetWord == toUpperCase(rendered.puzzle.target_word_hidden)
      nextGuessed == rendered.guessedLetters \cup {letter}
      attempts == nextAttempts(rendered.attempts, targetWord, letter)
      won == isWon(targetWord, nextGuessed)
      lost == isLost(targetWord, nextGuessed, attempts, rendered.maxAttempts)
  IN [prev EXCEPT !.guessedLetters = nextGuessed,
                  !.userGuess = newUserGuess(targetWord, nextGuessed),
                  !.attempts = attempts,
                  !.status = IF won THEN WON ELSE IF lost THEN LOST ELSE PLAYING,
                  !.score = [won |-> IF isCorrect(targetWord, letter)
                                     THEN prev.score.won + 1 ELSE prev.score.won,
                             lost |-> IF lost THEN prev.score.lost + 1 ELSE prev.score.lost]]

\* the updater of an accepted click; everything but score comes from the closure
applyGuess(prev, letter) ==
  LET targetWord == toUpperCase(rendered.puzzle.target_word_hidden)
      nextGuessed == rendered.guessedLetters \cup {letter}
      attempts == nextAttempts(rendered.attempts, targetWord, letter)
      won == isWon(targetWord, nextGuessed)
      lost == isLost(targetWord, nextGuessed, attempts, rendered.maxAttempts)
  IN [prev EXCEPT !.guessedLetters = nextGuessed,
                  !.userGuess = newUserGuess(targetWord, nextGuessed),
                  !.attempts = attempts,
                  !.status = IF won THEN WON ELSE IF lost THEN LOST ELSE PLAYING,
                  !.score = [won |-> IF won THEN prev.score.won + 1 ELSE prev.score.won,
                             lost |-> IF lost THEN prev.score.lost + 1 ELSE prev.score.lost]]

\* handleLetterClick(letter), then the render of its update
handleLetterClick(letter) ==
  /\ Quiet
  /\ IF ClickIgnored(letter)
     THEN /\ lastOp' = "click_ignored"
          /\ UNCHANGED <<gameState, rendered, prefetchTimer, isFetchingNext,
                         hasExpandedPool, cooldownLeft, isRetrying, isPrefetching,
                         prefetchInFlight, loadInFlight, expandInFlight>>
     ELSE /\ gameState' = applyGuess(gameState, letter)
          /\ Commit(applyGuess(gameState, letter))
          /\ lastOp' = "click_accepted"
          /\ UNCHANGED <<isFetchingNext, cooldownLeft, isRetrying, isPrefetching,
                         prefetchInFlight, loadInFlight>>

\* a key of the letter pool is clicked
ClickLetter(letter) ==
  /\ handleLetterClick(letter)
  /\ UNCHANGED call
  /\ TrackRequest

\* ------------------------------------------------------------ prefetchNextRound
\* the guard without the cooldown test
PrefetchBlocked_NoCooldown(len) ==
  isFetchingNext \/ len >= MAX_PREFETCH

\* the guard without the test of isFetchingNext
PrefetchBlocked_NoFlag(len) ==
  len >= MAX_PREFETCH \/ cooldownLeft > 0

\* the guard on the first line of prefetchNextRound, len being the queue
\* length its closure captured
PrefetchBlocked(len) ==
  isFetchingNext \/ len >= MAX_PREFETCH \/ cooldownLeft > 0

\* prefetchNextRound without setIsRetrying(false)
PrefetchNextRound_KeepsRetrying ==
  /\ Quiet
  /\ prefetchTimer.set
  /\ prefetchTimer.left = 0
  /\ prefetchTimer' = NoTimer
  /\ IF PrefetchBlocked(prefetchTimer.len)
     THEN /\ lastOp' = "prefetch_skipped"
          /\ UNCHANGED <<isFetchingNext, isPrefetching, isRetrying, prefetchInFlight>>
     ELSE /\ isFetchingNext' = TRUE
          /\ isPrefetching' = TRUE
          /\ isRetrying' = isRetrying
          /\ prefetchInFlight' = prefetchInFlight + 1
          /\ lastOp' = "prefetch_started"
  /\ UNCHANGED <<gameState, rendered, hasExpandedPool, cooldownLeft,
                 loadInFlight, expandInFlight>>
  /\ UNCHANGED call
  /\ TrackRequest

\* the debounce timer fires: prefetchNextRound up to its await
PrefetchNextRound ==
  /\ Quiet
  /\ prefetchTimer.set
  /\ prefetchTimer.left = 0
  /\ prefetchTimer' = NoTimer
  /\ IF PrefetchBlocked(prefetchTimer.len)
     THEN /\ lastOp' = "prefetch_skipped"
          /\ UNCHANGED <<isFetchingNext, isPrefetching, isRetrying, prefetchInFlight>>
     ELSE /\ isFetchingNext' = TRUE
          /\ isPrefetching' = TRUE
          /\ isRetrying' = FALSE
          /\ prefetchInFlight' = prefetchInFlight + 1
          /\ lastOp' = "prefetch_started"
  /\ UNCHANGED <<gameState, rendered, hasExpandedPool, cooldownLeft,
                 loadInFlight, expandInFlight>>
  /\ UNCHANGED call
  /\ TrackRequest

\* the validity check one letter too lenient
isValidPuzzle_OffByOne(nextPuzzle) ==
  Len(nextPuzzle.target_word_hidden) >= MIN_WORD_LENGTH - 1

\* the validity check on a prefetched puzzle
isValidPuzzle(nextPuzzle) == Len(nextPuzzle.target_word_hidden) >= MIN_WORD_LENGTH

\* the appending updater dropping a puzzle that arrives outside a round
enqueue_OnlyInPlaying(prev, nextPuzzle) ==
  IF prev.status = PLAYING
  THEN [prev EXCEPT !.nextPuzzles = Append(prev.nextPuzzles, nextPuzzle)]
  ELSE prev

\* the appending updater spreading the game state the last render captured
\* instead of prev
enqueue_FromSnapshot(prev, nextPuzzle) ==
  [prev EXCEPT !.status = rendered.status,
               !.puzzle = rendered.puzzle,
               !.attempts = rendered.attempts,
               !.guessedLetters = rendered.guessedLetters,
               !.nextPuzzles = Append(prev.nextPuzzles, nextPuzzle)]

\* the updater that appends a prefetched puzzle
enqueue(prev, nextPuzzle) ==
  [prev EXCEPT !.nextPuzzles = Append(prev.nextPuzzles, nextPuzzle)]

\* the background generateGameRound() resolves with nextPuzzle
PrefetchResolve(nextPuzzle) ==
  /\ Quiet
  /\ prefetchInFlight > 0
  /\ prefetchInFlight' = prefetchInFlight - 1
  /\ IF isValidPuzzle(nextPuzzle)
     THEN /\ gameState' = enqueue(gameState, nextPuzzle)
          /\ lastOp' = "prefetch_ok"
     ELSE /\ gameState' = gameState
          /\ lastOp' = "prefetch_discarded"
  /\ isFetchingNext' = FALSE
  /\ isPrefetching' = FALSE
  /\ UNCHANGED <<rendered, prefetchTimer, hasExpandedPool, cooldownLeft,
                 isRetrying, loadInFlight, expandInFlight>>
  /\ UNCHANGED call
  /\ TrackRequest

\* PrefetchReject without setIsRetrying(true)
PrefetchReject_NoRetryFlag ==
  /\ alertShown' = FALSE
  /\ sinceFailure' = 0
  /\ prefetchInFlight > 0
  /\ prefetchInFlight' = prefetchInFlight - 1
  /\ cooldownLeft' = COOLDOWN_MS
  /\ isFetchingNext' = FALSE
  /\ isPrefetching' = FALSE
  /\ lastOp' = "prefetch_fail"
  /\ UNCHANGED <<gameState, rendered, prefetchTimer, hasExpandedPool,
                 isRetrying, loadInFlight, expandInFlight>>
  /\ UNCHANGED call
  /\ TrackRequest

\* the background generateGameRound() rejects
PrefetchReject ==
  /\ alertShown' = FALSE
  /\ sinceFailure' = 0
  /\ prefetchInFlight > 0
  /\ prefetchInFlight' = prefetchInFlight - 1
  /\ cooldownLeft' = COOLDOWN_MS
  /\ isRetrying' = TRUE
  /\ isFetchingNext' = FALSE
  /\ isPrefetching' = FALSE
  /\ lastOp' = "prefetch_fail"
  /\ UNCHANGED <<gameState, rendered, prefetchTimer, hasExpandedPool,
                 loadInFlight, expandInFlight>>
  /\ UNCHANGED call
  /\ TrackRequest

\* ------------------------------------------------------------------ the rest
\* ExpandSettle starting another expandPool request when the first one failed
ExpandSettle_Retry(ok) ==
  /\ Quiet
  /\ expandInFlight > 0
  /\ expandInFlight' = (IF ok THEN expandInFlight - 1 ELSE expandInFlight)
  /\ lastOp' = (IF ok THEN "expand_ok" ELSE "expand_failed")
  /\ UNCHANGED <<gameState, rendered, prefetchTimer, isFetchingNext,
                 hasExpandedPool, cooldownLeft, isRetrying, isPrefetching,
                 prefetchInFlight, loadInFlight>>
  /\ UNCHANGED call
  /\ TrackRequest

\* expandPool settles, resolved (ok) or failed and logged: nothing of the game
\* is touched and the controller does not look at the outcome
ExpandSettle(ok) ==
  /\ Quiet
  /\ expandInFlight > 0
  /\ expandInFlight' = expandInFlight - 1
  /\ lastOp' = (IF ok THEN "expand_ok" ELSE "expand_failed")
  /\ UNCHANGED <<gameState, rendered, prefetchTimer, isFetchingNext,
                 hasExpandedPool, cooldownLeft, isRetrying, isPrefetching,
                 prefetchInFlight, loadInFlight>>
  /\ UNCHANGED call
  /\ TrackRequest

Min(a, b) == IF a < b THEN a ELSE b

Max0(n) == IF n > 0 THEN n ELSE 0

\* DEBOUNCE_MS of time pass
Tick ==
  /\ alertShown' = FALSE
  /\ sinceFailure' = Min(sinceFailure + DEBOUNCE_MS, COOLDOWN_MS)
  /\ cooldownLeft > 0 \/ prefetchTimer.left > 0
  /\ cooldownLeft' = Max0(cooldownLeft - DEBOUNCE_MS)
  /\ prefetchTimer' = [prefetchTimer EXCEPT !.left = Max0(@ - DEBOUNCE_MS)]
  /\ lastOp' = "tick"
  /\ UNCHANGED <<gameState, rendered, isFetchingNext, hasExpandedPool,
                 isRetrying, isPrefetching, prefetchInFlight, loadInFlight,
                 expandInFlight>>
  /\ UNCHANGED call
  /\ TrackRequest

\* fewer than n rounds have been completed
RoundsBelow(n) == gameState.score.won + gameState.score.lost < n

\* the steps of a session in which at most rounds rounds are completed, the
\* player presses the keys of keys and the generator resolves with puzzles
Session(rounds, keys, puzzles) ==
  \/ (RoundsBelow(rounds) /\ StartNewGame)
  \/ \E puzzle \in puzzles : LoadResolve(puzzle)
  \/ LoadReject
  \/ \E letter \in keys : ClickLetter(letter)
  \/ PrefetchNextRound
  \/ \E nextPuzzle \in puzzles : PrefetchResolve(nextPuzzle)
  \/ PrefetchReject
  \/ Render
  \/ \E ok \in BOOLEAN : ExpandSettle(ok)
  \/ Tick

\* lifecycle and queue: two valid puzzles and an invalid one, no round can be lost
Next == Session(MaxRounds, Keys, GeneratedPuzzles)

Spec == Init /\ [][Next]_vars

\* guess evaluation: every key, one puzzle, background requests never fail
NextGuess ==
  \/ (RoundsBelow(GuessRounds) /\ StartNewGame)
  \/ \E puzzle \in GuessPuzzles : LoadResolve(puzzle)
  \/ LoadReject
  \/ \E letter \in Letters : ClickLetter(letter)
  \/ PrefetchNextRound
  \/ \E nextPuzzle \in GuessPuzzles : PrefetchResolve(nextPuzzle)
  \/ Render
  \/ \E ok \in BOOLEAN : ExpandSettle(ok)
  \/ Tick

SpecGuess == Init /\ [][NextGuess]_vars

\* history: many rounds, all won, the generator never fails
NextHist ==
  \/ (RoundsBelow(HistRounds) /\ StartNewGame)
  \/ LoadResolve(HistPuzzle)
  \/ \E letter \in HistKeys : ClickLetter(letter)
  \/ PrefetchNextRound
  \/ PrefetchResolve(HistPuzzle)
  \/ Render
  \/ \E ok \in BOOLEAN : ExpandSettle(ok)
  \/ Tick

SpecHist == Init /\ [][NextHist]_vars

\* a background request settles: resolved, valid or not, or rejected
PrefetchSettles ==
  \/ \E nextPuzzle \in LivePuzzles : PrefetchResolve(nextPuzzle)
  \/ PrefetchReject

\* the foreground request settles: resolved or rejected
LoadSettles ==
  \/ \E puzzle \in LivePuzzles : LoadResolve(puzzle)
  \/ LoadReject

\* progress: the session of Spec with few keys and one more puzzle
NextLive == Session(LiveRounds, HistKeys, LivePuzzles)

\* the browser lets time pass and fires a due timer, React renders a pending
\* update, and the generator's promises settle one way or the other
Fairness ==
  /\ WF_vars(Tick)
  /\ WF_vars(PrefetchNextRound)
  /\ WF_vars(PrefetchSettles)
  /\ WF_vars(LoadSettles)
  /\ WF_vars(Render)

SpecLive == Init /\ [][NextLive]_vars /\ Fairness

\* every variable of the program (lastOp only records the last step)
progVars == <<gameState, rendered, prefetchTimer, isFetchingNext, hasExpandedPool,
              cooldownLeft, isRetrying, isPrefetching, prefetchInFlight,
              loadInFlight, expandInFlight>>

TypeOK ==
  /\ gameState.status \in GameStatus
  /\ gameState.attempts \in Nat
  /\ gameState.guessedLetters \subseteq Letters
  /\ isFetchingNext \in BOOLEAN
  /\ hasExpandedPool \in BOOLEAN
  /\ isRetrying \in BOOLEAN
  /\ isPrefetching \in BOOLEAN
  /\ cooldownLeft \in 0..COOLDOWN_MS
  /\ prefetchInFlight \in Nat
  /\ loadInFlight \in Nat
  /\ expandInFlight \in Nat
  /\ alertShown \in BOOLEAN
  /\ sinceFailure \in 0..COOLDOWN_MS
  /\ movedOn \in BOOLEAN

\* ------------------------------------------------------------------- claims

\* C1: in every reachable state the prefetch queue nextPuzzles holds at most
\* MAX_PREFETCH (2) puzzles.
C1_QueueBound == Len(gameState.nextPuzzles) <= MAX_PREFETCH

\* C2: at most one background request is in flight, and isFetchingNext is
\* true exactly while one is in flight.
C2_SingleInFlight ==
  /\ prefetchInFlight <= 1
  /\ isFetchingNext <=> (prefetchInFlight = 1)

\* C2 witness: a debounce timer fired while a request was in flight and the
\* guard turned it away.
C2_Witness ==
  /\ lastOp = "prefetch_skipped"
  /\ isFetchingNext
  /\ prefetchInFlight = 1

\* C3: whenever startNewGame is handled with a non-empty queue, the new
\* puzzle is the former head of the queue, the new queue is the former queue
\* without that head, and status becomes PLAYING.
C3_FastPath ==
  [][(StartNewGame /\ Len(gameState.nextPuzzles) > 0) =>
       /\ gameState'.status = PLAYING
       /\ gameState'.puzzle = Head(gameState.nextPuzzles)
       /\ gameState'.nextPuzzles = Tail(gameState.nextPuzzles)]_vars

\* C4: status is WON only if userGuess spells target_word_hidden, and LOST
\* only if it does not and attempts >= maxAttempts.
C4_WinLoseExclusive ==
  /\ gameState.status = WON =>
       gameState.userGuess = gameState.puzzle.target_word_hidden
  /\ gameState.status = LOST =>
       /\ gameState.userGuess # gameState.puzzle.target_word_hidden
       /\ gameState.attempts >= gameState.maxAttempts

\* C4 witness: a round was won and the next one has just been lost.
C4_Witness ==
  /\ gameState.status = LOST
  /\ gameState.score.won = 1
  /\ lastOp = "click_accepted"

\* C5: handleLetterClick for a letter already in guessedLetters changes
\* nothing of the program's state.
C5_GuessIdempotence ==
  [][\A letter \in Letters :
       (letter \in gameState.guessedLetters /\ ClickLetter(letter))
         => UNCHANGED progVars]_vars

\* C5 witness: during a round, a click on a guessed letter was turned away
\* (with a puzzle on screen and status PLAYING no other early return applies).
C5_Witness ==
  /\ lastOp = "click_ignored"
  /\ rendered.status = PLAYING
  /\ rendered.puzzle # NULL
  /\ gameState.attempts > 0
  /\ gameState.guessedLetters # {}

\* C6: every puzzle in the queue has a target word of at least 3 letters (a
\* prefetched puzzle with a shorter word is never appended).
C6_ValidityFilter ==
  \A i \in DOMAIN gameState.nextPuzzles :
    Len(gameState.nextPuzzles[i].target_word_hidden) >= 3

\* C6 witness: a background request resolved with a short word and the
\* puzzle was dropped, the queue holding a puzzle already.
C6_Witness ==
  /\ lastOp = "prefetch_discarded"
  /\ Len(gameState.nextPuzzles) = 1

\* a step that archives a round: status leaves WON or LOST
ArchivingStep ==
  /\ gameState.status \in {WON, LOST}
  /\ gameState'.status \notin {WON, LOST}

\* C7: history never holds more than MAX_HISTORY (12) entries; an archived
\* round becomes history[0], the entries before it keep their order, and the
\* entry dropped at capacity is the last (oldest) one.
C7_HistoryBound ==
  /\ [](Len(gameState.history) <= 12)
  /\ [][ArchivingStep =>
          /\ Len(gameState'.history) =
               (IF Len(gameState.history) < 12 THEN Len(gameState.history) + 1 ELSE 12)
          /\ gameState'.history[1] =
               [puzzle |-> gameState.puzzle, outcome |-> gameState.status]
          /\ \A i \in 2..Len(gameState'.history) :
               gameState'.history[i] = gameState.history[i - 1]]_vars

\* C7 witness: thirteen rounds were archived, so the first one (BAB) was
\* dropped from a full history.
C7_Witness ==
  /\ Len(gameState.history) = 12
  /\ gameState.score.won = 13
  /\ gameState.status = PLAYING
  /\ \A i \in DOMAIN gameState.history :
       gameState.history[i].puzzle.target_word_hidden = <<"A", "B", "A">>

\* C8: 0 <= attempts <= maxAttempts in every reachable state.
C8_AttemptsBound ==
  /\ gameState.attempts >= 0
  /\ gameState.attempts <= gameState.maxAttempts

\* C8 witness: the round was lost on the last attempt.
C8_Witness ==
  /\ gameState.attempts = gameState.maxAttempts
  /\ gameState.status = LOST

\* C9: when status is PLAYING, WON or LOST a puzzle is present and userGuess
\* has word_length slots.
C9_GuessShape ==
  gameState.status \in {PLAYING, WON, LOST} =>
    /\ gameState.puzzle # NULL
    /\ Len(gameState.userGuess) = gameState.puzzle.word_length

\* C9 witness: a puzzle installed by the foreground request is being played
\* and a letter has been revealed.
C9_Witness ==
  /\ gameState.status = PLAYING
  /\ gameState.guessedLetters = {"A"}
  /\ Len(gameState.userGuess) = 3
  /\ gameState.history = <<>>

Completed == gameState.score.won + gameState.score.lost

\* C10 as claimed: every completed round has its history entry as soon as it
\* is completed, and history holds nothing else.
C10_AtomicArchival == Len(gameState.history) = Min(Completed, MAX_HISTORY)

\* C10 as amended: a round is archived by the startNewGame update that leaves
\* WON or LOST; history holds one entry per completed round that has been
\* left, of that round's outcome, and nothing else.
C10_ArchivedOnLeave ==
  /\ Len(gameState.history) =
       Min(Completed - (IF gameState.status \in {WON, LOST} THEN 1 ELSE 0), MAX_HISTORY)
  /\ Cardinality({i \in DOMAIN gameState.history : gameState.history[i].outcome = "WON"})
       = gameState.score.won - (IF gameState.status = WON THEN 1 ELSE 0)
  /\ Cardinality({i \in DOMAIN gameState.history : gameState.history[i].outcome = "LOST"})
       = gameState.score.lost - (IF gameState.status = LOST THEN 1 ELSE 0)

\* C10 witness: a lost round has just been left by startNewGame, which put it
\* in history while entering LOADING.
C10_Witness ==
  /\ lastOp = "start_loading"
  /\ gameState.status = LOADING
  /\ Len(gameState.history) = 1
  /\ gameState.history[1].outcome = "LOST"
  /\ gameState.score.lost = 1

\* C11: in every reachable state whose status is IDLE or LOADING the current
\* puzzle is absent (null), also after a round has been played and after a
\* failed foreground generation.
C11_PuzzleAbsent ==
  gameState.status \in {IDLE, LOADING} => gameState.puzzle = NULL

\* the fields of gameState a start-game intent sets up for a round
RoundFields(gs) ==
  <<gs.puzzle, gs.nextPuzzles, gs.userGuess, gs.attempts, gs.guessedLetters,
    gs.score, gs.history>>

\* C12: when the foreground generation request fails, status goes from LOADING
\* to IDLE and an alert is raised, every other field of the state is left as
\* the LOADING update set it (nothing of the failed start is retained), and no
\* other step ever raises an alert.
C12_ForegroundFailure ==
  [][ /\ lastOp' = "load_fail" =>
           /\ gameState.status = LOADING
           /\ gameState'.status = IDLE
           /\ alertShown'
           /\ RoundFields(gameState') = RoundFields(gameState)
           /\ gameState'.userGuess = <<>>
           /\ gameState'.attempts = 0
           /\ gameState'.guessedLetters = {}
      /\ alertShown' => lastOp' = "load_fail" ]_vars

C12_Witness ==
  /\ lastOp = "load_fail"
  /\ alertShown
  /\ gameState.status = IDLE
  /\ gameState.score.won + gameState.score.lost > 0

\* C13: a failed background prefetch enqueues nothing and changes no field of
\* the game state (status, puzzle, queue, userGuess, attempts, guessedLetters,
\* score, history), raises no alert, leaves the foreground request of
\* startNewGame as it was, and sets isRetrying.
C13_BackgroundFailureAbsorbed ==
  [][ lastOp' = "prefetch_fail" =>
        /\ gameState' = gameState
        /\ ~alertShown'
        /\ loadInFlight' = loadInFlight
        /\ isRetrying' ]_vars

C13_Witness ==
  /\ lastOp = "prefetch_fail"
  /\ isRetrying
  /\ ~alertShown
  /\ gameState.status = PLAYING
  /\ Len(gameState.nextPuzzles) = 1
  /\ loadInFlight = 0

\* C14: a background generation request is started only when at least
\* COOLDOWN_MS have passed since the last background failure, whatever timers
\* fire or intents arrive in between.
C14_Cooldown ==
  [][ prefetchInFlight' > prefetchInFlight => sinceFailure >= COOLDOWN_MS ]_vars

\* a debounce timer fired inside the cooldown, with no request in flight, and
\* started nothing
C14_Witness ==
  /\ lastOp = "prefetch_skipped"
  /\ sinceFailure < COOLDOWN_MS
  /\ ~isFetchingNext
  /\ prefetchInFlight = 0
  /\ Len(gameState.nextPuzzles) < MAX_PREFETCH

\* C15: expandPool is requested at most once, never while the queue holds
\* anything but exactly 2 puzzles, and at the first moment the queue holds 2:
\* the queue never moves away from its first length of 2 with the request
\* still not made.
C15_ExpandOnceAtFirstTwo ==
  [][ /\ expandInFlight' > expandInFlight =>
           /\ ~hasExpandedPool
           /\ expandInFlight' = expandInFlight + 1
           /\ Len(gameState'.nextPuzzles) = EXPANSION_TRIGGER
      /\ hasExpandedPool => hasExpandedPool'
      /\ ( /\ Len(gameState.nextPuzzles) = EXPANSION_TRIGGER
           /\ Len(gameState'.nextPuzzles) # EXPANSION_TRIGGER ) => hasExpandedPool' ]_vars

\* C16: the settling of the pool-expansion request, failed or successful,
\* changes no gameplay state (status, puzzle, queue, userGuess, attempts,
\* guessedLetters, score, history), raises no alert, starts no further
\* expansion request (no retry) and touches no timer, flag or request of the
\* controller, which went on without waiting when it made the request.
C16_ExpansionIsolated ==
  [][ lastOp' \in {"expand_ok", "expand_failed"} =>
        /\ gameState' = gameState
        /\ rendered' = rendered
        /\ ~alertShown'
        /\ expandInFlight' = expandInFlight - 1
        /\ hasExpandedPool' = hasExpandedPool
        /\ <<prefetchTimer, isFetchingNext, cooldownLeft, isRetrying, isPrefetching,
             prefetchInFlight, loadInFlight>>' =
           <<prefetchTimer, isFetchingNext, cooldownLeft, isRetrying, isPrefetching,
             prefetchInFlight, loadInFlight>> ]_vars

\* the expansion failed during a round, which goes on
C16_Witness ==
  /\ lastOp = "expand_failed"
  /\ expandInFlight = 0
  /\ hasExpandedPool
  /\ gameState.status = PLAYING
  /\ Len(gameState.nextPuzzles) = EXPANSION_TRIGGER

\* the fields of gameState that describe the round on screen
TerminalFields(gs) ==
  <<gs.status, gs.puzzle, gs.userGuess, gs.attempts, gs.guessedLetters, gs.score>>

\* a step of startNewGame, on either path
StartGameStep == lastOp' \in {"start_queue", "start_loading"}

\* C17: once status is WON or LOST, every step that is not a start-game intent
\* (a letter click, a background request resolving or failing, a timer firing,
\* a render, the pool expansion settling, time passing) leaves status, puzzle,
\* userGuess, attempts, guessedLetters and score as they are.
C17_TerminalPersists ==
  [][ (gameState.status \in {WON, LOST} /\ ~StartGameStep) =>
        TerminalFields(gameState') = TerminalFields(gameState) ]_vars

\* a prefetched puzzle arrived while the lost round stays on screen
C17_Witness ==
  /\ gameState.status = LOST
  /\ lastOp = "prefetch_ok"
  /\ gameState.attempts = MAX_ATTEMPTS
  /\ gameState.score.lost = 1
  /\ Len(gameState.nextPuzzles) > 0

\* the status changes the updaters make: startNewGame (to PLAYING from the
\* queue, to LOADING otherwise, from wherever a start button is shown), the
\* foreground request (LOADING to PLAYING or IDLE), an accepted click
StatusTransitions ==
  { <<IDLE, LOADING>>, <<WON, LOADING>>, <<LOST, LOADING>>,
    <<IDLE, PLAYING>>, <<WON, PLAYING>>, <<LOST, PLAYING>>,
    <<LOADING, PLAYING>>, <<LOADING, IDLE>>, <<PLAYING, WON>>, <<PLAYING, LOST>> }

C19_AttemptPenalty ==
  [][ lastOp' = "click_accepted" =>
        /\ gameState.status = PLAYING
        /\ \E letter \in Letters \ gameState.guessedLetters :
             /\ gameState'.guessedLetters = gameState.guessedLetters \cup {letter}
             /\ gameState'.attempts =
                  IF \E i \in 1..Len(gameState.puzzle.target_word_hidden) :
                       toUpperCase(gameState.puzzle.target_word_hidden)[i] = letter
                  THEN gameState.attempts
                  ELSE gameState.attempts + 1 ]_vars

\* one letter of the word and two letters outside it have been clicked
C19_Witness ==
  /\ lastOp = "click_accepted"
  /\ gameState.status = PLAYING
  /\ gameState.guessedLetters = {"A", "X", "Y"}
  /\ gameState.attempts = 2

\* C20: after every accepted letter click userGuess has the length of the
\* target word and, at every position i, shows targetWord[i] if that character
\* is in the updated guessedLetters and is blank otherwise: all occurrences of
\* a guessed letter are revealed at once and no position shows anything but
\* its own character.
C20_GuessDisplay ==
  lastOp = "click_accepted" =>
    LET targetWord == toUpperCase(gameState.puzzle.target_word_hidden)
    IN /\ Len(gameState.userGuess) = Len(targetWord)
       /\ \A i \in 1..Len(targetWord) :
            gameState.userGuess[i] =
              IF targetWord[i] \in gameState.guessedLetters THEN targetWord[i] ELSE ""

\* one click of A revealed both A of ABA
C20_Witness ==
  /\ lastOp = "click_accepted"
  /\ gameState.puzzle.target_word_hidden = <<"A", "B", "A">>
  /\ gameState.guessedLetters = {"A"}
  /\ gameState.userGuess = <<"A", "", "A">>

\* the distinct letters of a word
LettersOf(word) == {word[i] : i \in 1..Len(word)}

\* C21: in a round with no incorrect click so far (attempts = 0, every guessed
\* letter in the word) the status is WON exactly when every distinct letter of
\* the target word has been clicked, not earlier, and then userGuess equals
\* targetWord; the clicks may come in any order.
C21_WinningRun ==
  ( /\ gameState.status \in {PLAYING, WON}
    /\ gameState.attempts = 0
    /\ gameState.guessedLetters \subseteq
         LettersOf(toUpperCase(gameState.puzzle.target_word_hidden)) ) =>
    LET targetWord == toUpperCase(gameState.puzzle.target_word_hidden)
    IN IF gameState.guessedLetters = LettersOf(targetWord)
       THEN gameState.status = WON /\ gameState.userGuess = targetWord
       ELSE gameState.status = PLAYING

\* ABA won by B then A, or A then B, with no miss
C21_Witness ==
  /\ gameState.status = WON
  /\ lastOp = "click_accepted"
  /\ gameState.attempts = 0
  /\ gameState.puzzle.target_word_hidden = <<"A", "B", "A">>
  /\ gameState.guessedLetters = {"A", "B"}
  /\ gameState.userGuess = <<"A", "B", "A">>

\* C22: the accepted click that is the maxAttempts-th incorrect guess of a
\* round sets attempts to maxAttempts and status to LOST, whatever correct
\* letters were guessed before it; and status is never LOST with attempts
\* below maxAttempts.
C22_LosingRun ==
  [][ /\ ( /\ lastOp' = "click_accepted"
           /\ gameState'.attempts = gameState.attempts + 1
           /\ gameState.attempts + 1 = gameState.maxAttempts ) =>
             /\ gameState'.status = LOST
             /\ gameState'.attempts = gameState'.maxAttempts
             /\ gameState'.score.lost = gameState.score.lost + 1
      /\ gameState'.status = LOST => gameState'.attempts >= gameState'.maxAttempts ]_vars

\* lost on the fourth miss with a letter of the word already revealed
C22_Witness ==
  /\ gameState.status = LOST
  /\ lastOp = "click_accepted"
  /\ gameState.attempts = MAX_ATTEMPTS
  /\ "A" \in gameState.guessedLetters
  /\ gameState.userGuess = <<"A", "", "A">>

\* C23: a start-game intent handled in WON or LOST puts exactly one new
\* HistoryItem, holding the puzzle of the round just finished and the outcome
\* its status names, in front of the history (kept to MAX_HISTORY entries);
\* handled in any other status it leaves history unchanged.
C23_ArchiveOnStart ==
  [][ StartGameStep =>
        IF gameState.status \in {WON, LOST}
        THEN /\ gameState'.history # <<>>
             /\ gameState'.history[1] =
                  [puzzle |-> gameState.puzzle,
                   outcome |-> IF gameState.status = WON THEN "WON" ELSE "LOST"]
             /\ Len(gameState'.history) = Min(Len(gameState.history) + 1, MAX_HISTORY)
             /\ \A i \in 2..Len(gameState'.history) :
                  gameState'.history[i] = gameState.history[i - 1]
        ELSE gameState'.history = gameState.history ]_vars

\* the lost round was archived by the fast path
C23_Witness ==
  /\ lastOp = "start_queue"
  /\ gameState.status = PLAYING
  /\ Len(gameState.history) = 1
  /\ gameState.history[1].outcome = "LOST"
  /\ gameState.score.lost = 1

\* C24: history changes only in a start-game step that leaves a WON or LOST
\* round, and every such step, on the fast path or the LOADING path, adds one
\* entry (up to MAX_HISTORY): a finished round is archived once when it is
\* left, never again from LOADING, IDLE (after a failed foreground request)
\* or PLAYING, and a round that was not finished is never archived.
C24_ArchivedExactlyOnce ==
  [][ /\ gameState'.history # gameState.history =>
           /\ StartGameStep
           /\ gameState.status \in {WON, LOST}
           /\ gameState'.status \in {PLAYING, LOADING}
      /\ (StartGameStep /\ gameState.status \in {WON, LOST}) =>
           /\ Len(gameState'.history) = Min(Len(gameState.history) + 1, MAX_HISTORY)
           /\ gameState'.history[1].puzzle = gameState.puzzle ]_vars

\* the foreground request failed after the finished round was archived; the
\* next start-game intent comes from IDLE with that round's puzzle still set
C24_Witness ==
  /\ lastOp = "load_fail"
  /\ gameState.status = IDLE
  /\ gameState.puzzle # NULL
  /\ Len(gameState.history) = 1
  /\ gameState.history[1].puzzle = gameState.puzzle

\* C25: a start-game intent handled with a non-empty queue reaches PLAYING in
\* that one step, does not enter LOADING and issues no foreground generation
\* request; the LOADING path is never taken while the queue is non-empty.
C25_FastPathNeverWaits ==
  [][ (StartGameStep /\ Len(gameState.nextPuzzles) > 0) =>
        /\ gameState'.status = PLAYING
        /\ loadInFlight' = loadInFlight
        /\ lastOp' # "start_loading" ]_vars

\* C26: a background request that resolves with a valid puzzle after status or
\* puzzle have changed since it was issued still has its puzzle appended at
\* the tail of the queue, and its arrival changes no other field of the game
\* state.
C26_LateResolutionKept ==
  [][ (lastOp' = "prefetch_ok" /\ movedOn) =>
        /\ Len(gameState'.nextPuzzles) = Len(gameState.nextPuzzles) + 1
        /\ SubSeq(gameState'.nextPuzzles, 1, Len(gameState.nextPuzzles)) =
             gameState.nextPuzzles
        /\ isValidPuzzle(gameState'.nextPuzzles[Len(gameState'.nextPuzzles)])
        /\ [gameState' EXCEPT !.nextPuzzles = gameState.nextPuzzles] = gameState ]_vars

\* the request was issued during a round and its puzzle arrived, behind the
\* one already queued, after that round was won
C26_Witness ==
  /\ lastOp = "prefetch_ok"
  /\ movedOn
  /\ gameState.status = WON
  /\ Len(gameState.nextPuzzles) = 2

\* the prefetch queue is wanted: a round or a load is under way and the queue
\* is below MAX_PREFETCH
QueueWanted ==
  gameState.status # IDLE /\ Len(gameState.nextPuzzles) < MAX_PREFETCH

\* no request to the generator has failed or returned an invalid puzzle
GeneratorSucceeded ==
  lastOp \notin {"prefetch_fail", "prefetch_discarded", "load_fail"}

\* C27: with timers firing, renders happening and requests settling, whenever
\* status is not IDLE and the queue is below MAX_PREFETCH a background request
\* is eventually started or is in flight; and if the generator always
\* resolves with a valid puzzle, the queue eventually holds MAX_PREFETCH
\* puzzles, unless status returns to IDLE or a start-game intent takes a
\* puzzle from the queue first.
C27_PrefetchLiveness ==
  /\ QueueWanted ~> (prefetchInFlight > 0 \/ ~QueueWanted)
  /\ []GeneratorSucceeded =>
       ( QueueWanted ~>
           \/ Len(gameState.nextPuzzles) >= MAX_PREFETCH
           \/ gameState.status = IDLE
           \/ lastOp = "start_queue" )

\* C28: after a background request failed or its puzzle was discarded, and
\* with status not IDLE and the queue below MAX_PREFETCH, another background
\* request is eventually started (the cooldown having elapsed) with nothing
\* but time passing, unless status becomes IDLE or the queue fills first.
C28_RetryAfterFailure ==
  (lastOp \in {"prefetch_fail", "prefetch_discarded"} /\ QueueWanted) ~>
     (lastOp = "prefetch_started" \/ ~QueueWanted)

\* C29: no background generation request is started while status is IDLE,
\* neither before the first start-game intent nor after a failed foreground
\* request has set status back to IDLE.
C29_NoPrefetchWhileIdle ==
  [][ prefetchInFlight' > prefetchInFlight => gameState.status # IDLE ]_vars

\* C30: at most one request to the puzzle generator is outstanding at any
\* time, the foreground request of the LOADING path and the background
\* prefetch requests counted together.
C30_SingleGeneratorRequest ==
  loadInFlight + prefetchInFlight <= 1

C32_ScoreCounters ==
  [][ IF gameState.status = PLAYING /\ gameState'.status = WON
      THEN gameState'.score = [won |-> gameState.score.won + 1,
                               lost |-> gameState.score.lost]
      ELSE IF gameState.status = PLAYING /\ gameState'.status = LOST
      THEN gameState'.score = [won |-> gameState.score.won,
                               lost |-> gameState.score.lost + 1]
      ELSE gameState'.score = gameState.score ]_vars

\* a second round was lost after the first was won
C32_Witness ==
  /\ lastOp = "click_accepted"
  /\ gameState.status = LOST
  /\ gameState.score = [won |-> 1, lost |-> 1]
  /\ Len(gameState.history) = 1
  /\ gameState.history[1].outcome = "WON"

\* what keeps a state recoverable: in LOADING the foreground request is still
\* to settle; in IDLE, WON and LOST, once rendered, a start button is shown;
\* in PLAYING, once rendered, a letter of the word can still be clicked
Recoverable ==
  /\ gameState.status = LOADING => loadInFlight > 0
  /\ (gameState.status \in {IDLE, WON, LOST} /\ rendered = Proj(gameState)) =>
       StartButtonShown
  /\ (gameState.status = PLAYING /\ rendered = Proj(gameState)) =>
       \E letter \in LettersOf(toUpperCase(gameState.puzzle.target_word_hidden)) :
         ~ClickIgnored(letter)

AcceptedClicks == Cardinality(gameState.guessedLetters)

\* C34: in a round whose keys (the letter pool, Letters) include every
\* distinct letter of the target word, at most (distinct letters of the word
\* + maxAttempts - 1) clicks are accepted, the last of them ending the round
\* in WON or LOST; and while status is PLAYING a key is still unguessed.
C34_RoundTermination ==
  ( /\ gameState.status \in {PLAYING, WON, LOST}
    /\ LettersOf(toUpperCase(gameState.puzzle.target_word_hidden)) \subseteq Letters ) =>
    LET distinct == Cardinality(LettersOf(toUpperCase(gameState.puzzle.target_word_hidden)))
    IN /\ AcceptedClicks <= distinct + gameState.maxAttempts - 1
       /\ gameState.status = PLAYING =>
            /\ AcceptedClicks < distinct + gameState.maxAttempts - 1
            /\ Letters \ gameState.guessedLetters # {}

\* the round ended on the last click the bound allows: one letter of ABA
\* found and four misses
C34_Witness ==
  /\ gameState.status = LOST
  /\ lastOp = "click_accepted"
  /\ AcceptedClicks =
       Cardinality(LettersOf(gameState.puzzle.target_word_hidden)) + MAX_ATTEMPTS - 1

\* ------------------------------------------- the letter pool of a puzzle
\* (src/unnamed/part_005, generateGameRound: word extraction and letter pool)

\* the number of letters the pool is padded to (the literal 12 of the loop)
POOL_SIZE == 12

\* how many letters of the alphabet the padding draws from
AlphabetLen == 14

\* "ABCDEFGHIJKLMNOPQRSTUVWXYZ"
ALPHABET == <<"A", "B", "C", "D", "E", "F", "G", "H", "I", "J", "K", "L", "M",
              "N", "O", "P", "Q", "R", "S", "T", "U", "V", "W", "X", "Y", "Z">>

\* the alphabet the padding draws from
alphabet == SubSeq(ALPHABET, 1, AlphabetLen)

\* the character class [a-zA-Z] (lower case as far as UpperChar knows it)
isAlpha(c) == c \in {ALPHABET[i] : i \in DOMAIN ALPHABET} \cup {"a", "b"}

\* the targetWord generateGameRound derives from concept.target_word
targetWordOf(raw) ==
  LET rawWord == toUpperCase(SelectSeq(raw, isAlpha))
  IN IF Len(rawWord) >= 3 /\ rawWord # <<"M", "Y", "S", "T", "E", "R", "Y">>
     THEN rawWord
     ELSE <<"P", "U", "Z", "Z", "L", "E">>

\* the answers of the generative model the letter pool is built for
PoolRawWords ==
  {<<"a", "b", "a">>, <<"a", "-", "b", "C">>, <<"a", "b">>,
   <<"M", "Y", "S", "T", "E", "R", "Y">>,
   <<"A", "B", "C", "D", "E", "F", "G", "H", "I", "J", "K", "L", "M">>}

\* Array.from(new Set(targetWord.split('')))
uniqueLetters(targetWord) == {targetWord[i] : i \in DOMAIN targetWord}

\* the padding loop goes on while poolSet.size < 12
PoolFull_OffByOne(poolSet) == Cardinality(poolSet) >= POOL_SIZE - 1

PoolFull(poolSet) == Cardinality(poolSet) >= POOL_SIZE

\* generateGameRound at the head of the padding loop; the array letterPool is
\* kept as the bag of its entries, its order being a random permutation
PoolCall(raw) ==
  [fn |-> "letterPool", pc |-> "padding", targetWord |-> targetWordOf(raw),
   poolSet |-> uniqueLetters(targetWordOf(raw)), letterPool |-> EmptyBag]

\* one turn of the loop: poolSet.add(alphabet[floor(random * length)])
PoolAdd ==
  /\ call.fn = "letterPool"
  /\ call.pc = "padding"
  /\ ~PoolFull(call.poolSet)
  /\ \E i \in DOMAIN alphabet :
       call' = [call EXCEPT !.poolSet = @ \cup {alphabet[i]}]
  /\ UNCHANGED appVars

\* the loop is left: letterPool = Array.from(poolSet).sort(random)
PoolReturn ==
  /\ call.fn = "letterPool"
  /\ call.pc = "padding"
  /\ PoolFull(call.poolSet)
  /\ call' = [call EXCEPT !.pc = "returned", !.letterPool = SetToBag(call.poolSet)]
  /\ UNCHANGED appVars

InitPool == AppInit /\ \E raw \in PoolRawWords : call = PoolCall(raw)

NextPool == PoolAdd \/ PoolReturn

\* Math.random is uniform over the alphabet: a loop that still misses letters
\* draws a new one eventually
SpecPool ==
  InitPool /\ [][NextPool]_vars /\ WF_vars(PoolAdd) /\ WF_vars(PoolReturn)

\* C35: the letter pool of every puzzle generateGameRound returns has no
\* letter twice, has max(12, distinct letters of targetWord) entries and holds
\* every letter of targetWord; the padding never goes beyond that size and
\* the loop is left.
C35_LetterPool ==
  /\ [](LET distinct == uniqueLetters(call.targetWord)
            size == IF Cardinality(distinct) > POOL_SIZE
                    THEN Cardinality(distinct) ELSE POOL_SIZE
        IN /\ Cardinality(call.poolSet) <= size
           /\ call.pc = "returned" =>
                /\ \A l \in BagToSet(call.letterPool) :
                     CopiesIn(l, call.letterPool) = 1
                /\ BagCardinality(call.letterPool) = size
                /\ distinct \subseteq BagToSet(call.letterPool))
  /\ <>(call.pc = "returned")

C35_Witness ==
  /\ call.fn = "letterPool"
  /\ call.pc = "returned"
  /\ call.targetWord = <<"A", "B", "C">>
  /\ BagCardinality(call.letterPool) = POOL_SIZE
  /\ BagToSet(call.letterPool) \ {"A", "B", "C"} # {}

\* C36: a background fetch that resolves changes only the queue and the
\* prefetch indicators: a valid puzzle is appended, alone, at the tail of the
\* queue (an invalid one leaves the queue as it is), isFetchingNext and
\* isPrefetching fall, and status, puzzle, userGuess, attempts,
\* guessedLetters, score and history keep their values, as do the cooldown,
\* the retry indicator, the timer and what the last render captured; this
\* also holds when the fetch resolves before an update is rendered.
C36_PrefetchCompletionFrame ==
  [][ lastOp' \in {"prefetch_ok", "prefetch_discarded"} =>
        /\ gameState'.nextPuzzles \in
             {gameState.nextPuzzles} \cup
               {Append(gameState.nextPuzzles, p) : p \in LivePuzzles}
        /\ (lastOp' = "prefetch_ok") =
             (Len(gameState'.nextPuzzles) = Len(gameState.nextPuzzles) + 1)
        /\ \A f \in {"status", "puzzle", "userGuess", "attempts", "maxAttempts",
                     "guessedLetters", "score", "history"} :
             gameState'[f] = gameState[f]
        /\ ~isFetchingNext' /\ ~isPrefetching'
        /\ UNCHANGED <<rendered, prefetchTimer, hasExpandedPool, cooldownLeft,
                       isRetrying, loadInFlight, expandInFlight>> ]_vars

\* a puzzle arrived during a round whose start was not rendered yet, and was
\* appended behind the one already queued
C36_Witness ==
  /\ lastOp = "prefetch_ok"
  /\ gameState.status = PLAYING
  /\ rendered.status # PLAYING
  /\ Len(gameState.nextPuzzles) = 2

\* C37: isRetrying is false when the session begins, rises only when a
\* background fetch fails, is false once a background attempt has started,
\* and falls at no other step: it is true exactly from a background failure
\* to the start of the next background attempt.
C37_RetryIndicatorLifetime ==
  /\ ~isRetrying
  /\ [][ /\ (isRetrying' /\ ~isRetrying) => lastOp' = "prefetch_fail"
         /\ lastOp' = "prefetch_fail" => isRetrying'
         /\ lastOp' = "prefetch_started" => ~isRetrying'
         /\ (isRetrying /\ ~isRetrying') => lastOp' = "prefetch_started" ]_vars

\* after a failure a scheduled attempt was held back by the cooldown: no
\* attempt started, and the indicator still stands
C37_Witness ==
  /\ isRetrying
  /\ lastOp = "prefetch_skipped"
  /\ cooldownLeft > 0
  /\ ~isFetchingNext

\* --------------------------------------------------------------- withRetry
\* (src/unnamed/part_005 and src/unnamed/part_003, one text)

\* the defaults every call site runs with
maxRetries == 3
initialDelay == 2000

\* error.status as the wrapped call may throw it: a number (n), a string (s)
\* or no such property
ErrorStatuses ==
  {"n:429", "n:503", "n:500", "n:0", "s:RESOURCE_EXHAUSTED", "s:UNAVAILABLE",
   "s:INTERNAL", "absent"}

\* error.message: a string with '429' in it, another string, or no string
ErrorMessages == {"has 429", "plain", "not a string"}

\* what one invocation of fn settles with: the value of attempt n, or an error
Fulfilled(n) == [ok |-> TRUE, value |-> n, status |-> "absent", message |-> "plain"]

Rejections ==
  [ok : {FALSE}, value : {0}, status : ErrorStatuses, message : ErrorMessages]

\* error?.status || (message includes '429' ? 'RESOURCE_EXHAUSTED' : null)
statusOf(error) ==
  IF error.status \notin {"absent", "n:0"}
  THEN error.status
  ELSE IF error.message = "has 429" THEN "s:RESOURCE_EXHAUSTED" ELSE "null"

\* the classification with every error taken for retryable
isRetryable_Any(error) == TRUE

isRetryable(error) ==
  \/ statusOf(error) = "s:RESOURCE_EXHAUSTED"
  \/ statusOf(error) = "s:UNAVAILABLE"
  \/ error.status = "n:503"
  \/ error.status = "n:429"

\* 2 to the power i
Pow2(i) == IF i = 0 THEN 1 ELSE IF i = 1 THEN 2 ELSE IF i = 2 THEN 4 ELSE 8

\* withRetry has neither returned nor thrown
Pending == [ok |-> FALSE, value |-> -1, status |-> "absent", message |-> "plain"]

\* withRetry awaiting the first fn(); settled is what withRetry itself returns
\* or throws
RetryCall ==
  [fn |-> "withRetry", pc |-> "awaiting", i |-> 0, calls |-> 1,
   outcomes |-> <<>>, delay |-> 0, settled |-> Pending]

\* the awaited fn() settles: return its value, or catch its error and either
\* sleep before the next turn of the loop or throw it
RetrySettle ==
  /\ call.fn = "withRetry"
  /\ call.pc = "awaiting"
  /\ \E outcome \in {Fulfilled(call.calls)} \cup Rejections :
       \E jitter \in {0, 999} :
         call' =
           [call EXCEPT
              !.outcomes = Append(@, outcome),
              !.pc = IF outcome.ok THEN "returned"
                     ELSE IF call.i < maxRetries /\ isRetryable(outcome)
                          THEN "sleeping" ELSE "thrown",
              !.delay = IF ~outcome.ok /\ call.i < maxRetries /\ isRetryable(outcome)
                        THEN initialDelay * Pow2(call.i) + jitter ELSE @,
              !.settled = IF ~outcome.ok /\ call.i < maxRetries /\ isRetryable(outcome)
                          THEN @ ELSE outcome]
  /\ UNCHANGED appVars

\* the delay has passed: continue with i + 1 and invoke fn() again
RetryWake ==
  /\ call.fn = "withRetry"
  /\ call.pc = "sleeping"
  /\ call' = [call EXCEPT !.pc = "awaiting", !.i = @ + 1, !.calls = @ + 1]
  /\ UNCHANGED appVars

InitRetry == AppInit /\ call = RetryCall

NextRetry == RetrySettle \/ RetryWake

\* the wrapped request settles and the timer of the delay fires
SpecRetry ==
  InitRetry /\ [][NextRetry]_vars /\ WF_vars(RetrySettle) /\ WF_vars(RetryWake)

\* an error of the rate-limit/unavailable class: status 429 or 503,
\* RESOURCE_EXHAUSTED or UNAVAILABLE, or a statusless error whose message
\* carries 429
RateLimited(error) ==
  \/ error.status \in {"n:429", "n:503", "s:RESOURCE_EXHAUSTED", "s:UNAVAILABLE"}
  \/ error.status \in {"absent", "n:0"} /\ error.message = "has 429"

\* C38: withRetry invokes the wrapped call at most maxRetries + 1 = 4 times
\* and ends; every attempt that was followed by another failed with a
\* rate-limit/unavailable error; it returns the value of the first attempt
\* that succeeds; it throws the error of the attempt just made, and does so
\* either because that error is not of the rate-limit/unavailable class or
\* because the attempt was the last one allowed.
C38_BoundedRetry ==
  /\ [](LET n == Len(call.outcomes)
        IN /\ call.calls <= maxRetries + 1
           /\ maxRetries + 1 = 4
           /\ call.calls = IF call.pc = "awaiting" THEN n + 1 ELSE n
           /\ \A k \in 1..(call.calls - 1) :
                ~call.outcomes[k].ok /\ RateLimited(call.outcomes[k])
           /\ call.pc \in {"awaiting", "sleeping"} => call.settled = Pending
           /\ call.pc = "returned" =>
                call.outcomes[n] = Fulfilled(n) /\ call.settled = Fulfilled(n)
           /\ call.pc = "thrown" =>
                /\ ~call.outcomes[n].ok /\ call.settled = call.outcomes[n]
                /\ ~RateLimited(call.outcomes[n]) \/ n = maxRetries + 1
           /\ call.pc = "sleeping" =>
                /\ ~call.outcomes[n].ok /\ RateLimited(call.outcomes[n])
                /\ n <= maxRetries
                /\ call.delay >= initialDelay)
  /\ <>(call.pc \in {"returned", "thrown"})

\* three rate-limit errors, then the fourth attempt failed the same way and
\* its error was thrown
C38_Witness ==
  /\ call.fn = "withRetry"
  /\ call.pc = "thrown"
  /\ call.calls = maxRetries + 1
  /\ call.outcomes[4].status = "n:429"
  /\ call.outcomes[1].status = "absent"

\* ------------------------------------- the letter click of the older variant
\* (src/App.tsx, the App with a single prefetch slot)

\* the game state of the older variant at the start of a round on puzzle,
\* with the maxAttempts of the full variant
LegacyRound(puzzle) ==
  [status |-> PLAYING,
   puzzle |-> puzzle,
   nextPuzzle |-> NULL,
   userGuess |-> BlankGuess(puzzle.word_length),
   attempts |-> 0,
   maxAttempts |-> MAX_ATTEMPTS,
   editingImage |-> FALSE,
   guessedLetters |-> {}]

\* handleLetterClick of src/App.tsx on state, rendered as it is
legacyHandleLetterClick(state, letter) ==
  IF state.puzzle = NULL \/ state.status # PLAYING
  THEN state
  ELSE IF letter \in state.guessedLetters
  THEN state
  ELSE LET targetWord == toUpperCase(state.puzzle.target_word_hidden)
           nextGuessed == state.guessedLetters \cup {letter}
           attempts == nextAttempts(state.attempts, targetWord, letter)
           won == isWon(targetWord, nextGuessed)
           lost == isLost(targetWord, nextGuessed, attempts, state.maxAttempts)
       IN [state EXCEPT !.guessedLetters = nextGuessed,
                        !.userGuess = newUserGuess(targetWord, nextGuessed),
                        !.attempts = attempts,
                        !.status = IF won THEN WON ELSE IF lost THEN LOST ELSE PLAYING]

\* both variants at the start of a round on the same puzzle
InitClick ==
  \E puzzle \in LivePuzzles :
    /\ AppAt(installPuzzle(InitialGameState, puzzle))
    /\ call = [fn |-> "handleLetterClick", legacy |-> LegacyRound(puzzle)]

\* the same key is clicked in both variants
ClickBoth(letter) ==
  /\ call.fn = "handleLetterClick"
  /\ handleLetterClick(letter)
  /\ call' = [call EXCEPT !.legacy = legacyHandleLetterClick(@, letter)]
  /\ TrackRequest

NextClick == \E letter \in Letters : ClickBoth(letter)

SpecClick == InitClick /\ [][NextClick]_vars

POOL_LIMIT == 60

\* how far below POOL_LIMIT the pools filled by earlier expansions stand
PoolRoom == 1

\* the arrays as the module defines them
ART_STYLES == [i \in 1..12 |-> i]
THEMES == [i \in 1..8 |-> i]
DOMAINS == [i \in 1..8 |-> i]
DOMAIN_RULES == [name \in 1..8 |-> "rule"]

\* a pool that earlier expansions have filled up to n entries
FilledTo(n) == [i \in 1..n |-> i]

\* the names a response may carry: one that every pool already holds and
\* new ones
ResponseNames == {1} \cup {POOL_LIMIT + k : k \in 1..(PoolRoom + 1)}

\* arrays of up to two entries over set
UpToTwo(set) == {<<>>} \cup {<<x>> : x \in set} \cup {<<x, y>> : x, y \in set}

\* a property of the parsed response (JSON.parse(response.text || '{}')):
\* missing, an array, or a value without forEach
Property(arrays) ==
  {[kind |-> "missing", items |-> <<>>], [kind |-> "not an array", items |-> <<>>]}
    \cup {[kind |-> "array", items |-> a] : a \in arrays}

\* { name, rule } of a domain; the rule may be left out
DomainEntries == [name : ResponseNames, rule : {"rule", "undefined"}]

\* Array.prototype.includes
includes(array, x) == \E i \in DOMAIN array : array[i] = x

\* the test before a push, without the look-up of the entry
mayPush_NoIncludes(pool, x) == Len(pool) < POOL_LIMIT

\* !pool.includes(x) && pool.length < POOL_LIMIT
mayPush(pool, x) == ~includes(pool, x) /\ Len(pool) < POOL_LIMIT

\* items.forEach(s => { if (...) pool.push(s); })
RECURSIVE pushNew(_, _)
pushNew(pool, items) ==
  IF items = <<>>
  THEN pool
  ELSE pushNew(IF mayPush(pool, Head(items)) THEN Append(pool, Head(items)) ELSE pool,
               Tail(items))

\* DOMAIN_RULES[d.name] = d.rule for every entry of items that is pushed
RECURSIVE setRules(_, _, _)
setRules(rules, pool, items) ==
  IF items = <<>>
  THEN rules
  ELSE LET d == Head(items)
       IN setRules(IF mayPush(pool, d.name)
                   THEN [name \in DOMAIN rules \cup {d.name} |->
                           IF name = d.name THEN d.rule ELSE rules[name]]
                   ELSE rules,
                   pushNew(pool, <<d.name>>),
                   Tail(items))

\* the names of the domain entries
namesOf(items) == [i \in DOMAIN items |-> items[i].name]

\* expandPool(count) is called: return at once, or send the request
ExpandCall ==
  /\ call.fn = "expandPool"
  /\ call.pc = "idle"
  /\ IF Len(call.ART_STYLES) >= POOL_LIMIT /\ Len(call.THEMES) >= POOL_LIMIT
     THEN call' = [call EXCEPT !.last = "returned at once"]
     ELSE call' = [call EXCEPT !.pc = "awaiting", !.last = "requested"]
  /\ UNCHANGED appVars

\* the request resolves and its text parses
ExpandRespond ==
  /\ call.fn = "expandPool"
  /\ call.pc = "awaiting"
  /\ call' = [call EXCEPT !.pc = "styles"]
  /\ UNCHANGED appVars

\* withRetry throws, or the text does not parse: the catch logs it
ExpandFail ==
  /\ call.fn = "expandPool"
  /\ call.pc = "awaiting"
  /\ call' = [call EXCEPT !.pc = "idle", !.last = "failed"]
  /\ UNCHANGED appVars

\* if (data.styles) data.styles.forEach(...)
ExpandStyles ==
  /\ call.fn = "expandPool"
  /\ call.pc = "styles"
  /\ \E styles \in Property(UpToTwo(ResponseNames)) :
       call' = IF styles.kind = "not an array"
               THEN [call EXCEPT !.pc = "idle", !.last = "failed"]
               ELSE [call EXCEPT !.pc = "themes",
                                 !.ART_STYLES = pushNew(@, styles.items)]
  /\ UNCHANGED appVars

\* if (data.themes) data.themes.forEach(...)
ExpandThemes ==
  /\ call.fn = "expandPool"
  /\ call.pc = "themes"
  /\ \E themes \in Property(UpToTwo(ResponseNames)) :
       call' = IF themes.kind = "not an array"
               THEN [call EXCEPT !.pc = "idle", !.last = "failed"]
               ELSE [call EXCEPT !.pc = "domains",
                                 !.THEMES = pushNew(@, themes.items)]
  /\ UNCHANGED appVars

\* if (data.domains) data.domains.forEach(...)
ExpandDomains ==
  /\ call.fn = "expandPool"
  /\ call.pc = "domains"
  /\ \E domains \in Property(UpToTwo(DomainEntries)) :
       call' = IF domains.kind = "not an array"
               THEN [call EXCEPT !.pc = "idle", !.last = "failed"]
               ELSE [call EXCEPT
                       !.pc = "idle",
                       !.last = "expanded",
                       !.DOMAINS = pushNew(@, namesOf(domains.items)),
                       !.DOMAIN_RULES = setRules(@, call.DOMAINS, domains.items)]
  /\ UNCHANGED appVars

\* the pools as the module defines them, or as earlier expansions with new
\* names left them PoolRoom below the limit
InitExpand ==
  /\ AppInit
  /\ \E styles \in {ART_STYLES, FilledTo(POOL_LIMIT - PoolRoom)},
        themes \in {THEMES, FilledTo(POOL_LIMIT - PoolRoom)},
        domains \in {DOMAINS, FilledTo(POOL_LIMIT - PoolRoom)} :
       call = [fn |-> "expandPool", pc |-> "idle", last |-> "none",
               ART_STYLES |-> styles, THEMES |-> themes, DOMAINS |-> domains,
               DOMAIN_RULES |-> [name \in 1..Len(domains) |-> "rule"]]

NextExpand ==
  \/ ExpandCall
  \/ ExpandRespond
  \/ ExpandFail
  \/ ExpandStyles
  \/ ExpandThemes
  \/ ExpandDomains

SpecExpand == InitExpand /\ [][NextExpand]_vars

\* array holds no entry twice
NoDuplicates(array) ==
  \A i, j \in DOMAIN array : array[i] = array[j] => i = j

\* array is what before was, with entries added at its end or none
Extends(array, before) ==
  Len(array) >= Len(before) /\ SubSeq(array, 1, Len(before)) = before

\* C40: whatever the responses, ART_STYLES, THEMES and DOMAINS never hold
\* more than POOL_LIMIT entries nor an entry twice, every entry of DOMAINS
\* has an entry in DOMAIN_RULES, no step removes or moves an entry of a pool
\* or of DOMAIN_RULES, and a call made while ART_STYLES and THEMES both stand
\* at POOL_LIMIT sends no request.
C40_PoolBound ==
  /\ [](\A pool \in {"ART_STYLES", "THEMES", "DOMAINS"} :
          Len(call[pool]) <= POOL_LIMIT /\ NoDuplicates(call[pool]))
  /\ [](\A i \in DOMAIN call.DOMAINS : call.DOMAINS[i] \in DOMAIN call.DOMAIN_RULES)
  /\ [][ /\ \A pool \in {"ART_STYLES", "THEMES", "DOMAINS"} :
              Extends(call'[pool], call[pool])
         /\ \A name \in DOMAIN call.DOMAIN_RULES :
              /\ name \in DOMAIN call'.DOMAIN_RULES
              /\ call'.DOMAIN_RULES[name] = call.DOMAIN_RULES[name]
         /\ (Len(call.ART_STYLES) >= POOL_LIMIT /\ Len(call.THEMES) >= POOL_LIMIT) =>
              call'.pc # "awaiting" ]_vars

\* styles and themes were filled to the limit, a later call returned at once,
\* and DOMAINS, still below the limit, holds a domain a response brought
C40_Witness ==
  /\ call.fn = "expandPool"
  /\ call.last = "returned at once"
  /\ Len(call.ART_STYLES) = POOL_LIMIT
  /\ Len(call.THEMES) = POOL_LIMIT
  /\ Len(call.DOMAINS) < POOL_LIMIT
  /\ includes(call.DOMAINS, POOL_LIMIT + 1)
  /\ call.DOMAIN_RULES[POOL_LIMIT + 1] = "undefined"

====
